---------------------------- MODULE Spec2Model ----------------------------
(***************************************************************************)
(* A model of three pieces of the block editor:                            *)
(*                                                                         *)
(*   - useMergeRefs (packages/compose/src/hooks/use-merge-refs/index.js),  *)
(*     driven by the host framework's commit: render, detach of the old    *)
(*     element, attach of the new one, then the owner's layout effects in  *)
(*     declaration order;                                                  *)
(*   - addSaveProps and withFontFamilyInlineStyles                         *)
(*     (packages/block-editor/src/hooks/font-family.js);                   *)
(*   - parseAudioUrl, whose tests are                                      *)
(*     packages/components/src/mobile/audio-player/test/                   *)
(*     audio-url-parser.test.js.                                           *)
(*                                                                         *)
(* Each piece has its own specification (Spec, SpecSave, SpecInline,       *)
(* SpecUrl); the variables of the other pieces stay at their idle values.  *)
(***************************************************************************)
EXTENDS Integers, Sequences, FiniteSets, TLC

VARIABLES
    \* ---- useMergeRefs: the hook's four useRef cells and the render argument
    element,           \* element.current
    didElementChange,  \* didElementChange.current
    previousRefs,      \* previousRefs.current
    currentRefs,       \* currentRefs.current
    refs,              \* the `refs` argument of the owner's latest render
    \* ---- the host framework around the hook
    deps,              \* dependency array memoised for the first layout effect
    mounted,           \* the owner has committed at least once
    dom,               \* the element the merged ref is attached to, or Null
    target,            \* the element the commit in progress attaches, or Null
    pc,                \* position inside the commit in progress
    kind,              \* who rendered in the latest commit: "owner" | "child"
    \* ---- observation of the refs handed to the hook
    before,            \* snapshot taken when the latest commit began
    log,               \* assignments made to refs during the latest commit
    last,              \* the value each ref was last given
    \* ---- font-family.js and parseAudioUrl (pure functions)
    arg,               \* the input of the function under study
    res,               \* its result
    res2,              \* the result of applying it to its own result
    stage              \* how many times it has been applied

vars == << element, didElementChange, previousRefs, currentRefs, refs, deps,
           mounted, dom, target, pc, kind, before, log, last,
           arg, res, res2, stage >>

hookVars == << element, didElementChange, previousRefs, currentRefs, refs,
               deps, mounted, dom, target, pc, kind, before, log, last >>

pureVars == << arg, res, res2, stage >>

\* ------------------------------------------------------------------ values

Undefined == "undefined"
Null == "null"
Unassigned == "unassigned"

\* The host elements the merged ref can be attached to.
Elements == {"e1", "e2"}

\* The refs a caller can pass (callback refs or ref objects: assignRef
\* treats both as one assignment).
Refs == {"A", "B", "C"}

\* Length of the ref list.  The list is the dependency array of the first
\* layout effect, whose length the host framework requires to be constant.
ListLen == 2

Range(s) == {s[i] : i \in DOMAIN s}

\* Ref lists: ListLen distinct refs in some order.
RefLists == {s \in [1..ListLen -> Refs] : \A i, j \in 1..ListLen : s[i] = s[j] => i = j}

\* ---------------------------------------------------------------- assignRef

\* assignRef( ref, value ): one assignment for a callback ref or a ref
\* object, nothing for anything else (an index past the end of the previous
\* list reads undefined).
assignRef(ref, value) ==
    IF ref \in Refs THEN << [ref |-> ref, value |-> value] >> ELSE << >>

RECURSIVE assignEach(_, _)
\* for ( const ref of refsToAssign ) assignRef( ref, value )
assignEach(list, value) ==
    IF list = << >> THEN << >>
    ELSE assignRef(Head(list), value) \o assignEach(Tail(list), value)

RECURSIVE Record(_, _)
\* The value each ref holds after the assignments `calls`, from `l`.
Record(l, calls) ==
    IF calls = << >> THEN l
    ELSE Record([l EXCEPT ![Head(calls).ref] = Head(calls).value], Tail(calls))


\* ------------------------------------------------------------- useMergeRefs

\* const refsToAssign = value ? currentRefs.current : previousRefs.current
refsToAssign(value) ==
    IF value \in Elements THEN currentRefs ELSE previousRefs

\* The merged callback always assigns the current list.
MergedRefCallsCurrentOnly(value) == assignEach(currentRefs, value)

\* The assignments made by the merged ref callback called with `value`.
MergedRefCalls(value) == assignEach(refsToAssign(value), value)

\* previousRefs.current[ index ]: undefined past the end of the list.
PreviousAt(prev, index) ==
    IF index \in DOMAIN prev THEN prev[index] ELSE Undefined

RECURSIVE ReassignFrom(_, _, _, _)
\* refs.forEach( ( ref, index ) => { ... } ) from position `index` on: where
\* the ref differs from the previous one at that position, the previous ref
\* is assigned null and the ref is assigned element.current.
ReassignFrom(index, prev, list, el) ==
    IF index > Len(list) THEN << >>
    ELSE (IF list[index] # PreviousAt(prev, index)
          THEN assignRef(PreviousAt(prev, index), Null) \o assignRef(list[index], el)
          ELSE << >>)
         \o ReassignFrom(index + 1, prev, list, el)

\* The body of the first layout effect without its test of didElementChange.
ReassignCallsIgnoringFlag(flag, prev, list, el) == ReassignFrom(1, prev, list, el)

\* The assignments made by the first layout effect.
ReassignCalls(flag, prev, list, el) ==
    IF flag = FALSE THEN ReassignFrom(1, prev, list, el) ELSE << >>

\* The host framework runs an effect with a dependency array on mount and
\* whenever a dependency differs from the one memoised at that position.
DepsChanged == ~mounted \/ \E i \in DOMAIN refs : PreviousAt(deps, i) # refs[i]

\* What a commit remembers of the state it started from.
Snapshot ==
    [ refs |-> refs, dom |-> dom, mounted |-> mounted,
      previousRefs |-> previousRefs, element |-> element ]

\* The owner component renders: useMergeRefs( newRefs ) runs up to its return
\* statement, and the render asks for `newTarget` to carry the merged ref.
OwnerRender(newRefs, newTarget) ==
    /\ pc = "idle"
    /\ refs' = newRefs
    /\ currentRefs' = newRefs
    /\ target' = newTarget
    /\ kind' = "owner"
    /\ before' = Snapshot
    /\ log' = << >>
    /\ pc' = "mutation"
    /\ UNCHANGED << element, didElementChange, previousRefs, deps, mounted,
                    dom, last, pureVars >>

\* A descendant that carries the merged ref re-renders on its own and mounts,
\* unmounts or swaps the element: the owner does not render in this commit.
ChildRender(newTarget) ==
    /\ pc = "idle"
    /\ mounted
    /\ newTarget # dom
    /\ target' = newTarget
    /\ kind' = "child"
    /\ before' = Snapshot
    /\ log' = << >>
    /\ pc' = "mutation"
    /\ UNCHANGED << element, didElementChange, previousRefs, currentRefs, refs,
                    deps, mounted, dom, last, pureVars >>

\* The merged ref callback, called by the host framework with `value`.
MergedRef(value) ==
    /\ element' = value
    /\ didElementChange' = TRUE
    /\ log' = log \o MergedRefCalls(value)
    /\ last' = Record(last, MergedRefCalls(value))

\* Mutation phase: the element that goes away is detached, callback( null ).
DetachRef ==
    /\ pc = "mutation"
    /\ dom # Null /\ target # dom
    /\ MergedRef(Null)
    /\ dom' = Null
    /\ pc' = "layout"
    /\ UNCHANGED << previousRefs, currentRefs, refs, deps, mounted, target,
                    kind, before, pureVars >>

\* Mutation phase when no element goes away.
KeepAttached ==
    /\ pc = "mutation"
    /\ ~(dom # Null /\ target # dom)
    /\ pc' = "layout"
    /\ UNCHANGED << element, didElementChange, previousRefs, currentRefs, refs,
                    deps, mounted, dom, target, kind, before, log, last,
                    pureVars >>

\* Where the commit goes after the layout phase of the element: the owner's
\* layout effects run only in a commit in which the owner rendered.
AfterAttach == IF kind = "owner" THEN "effect1" ELSE "idle"

\* Layout phase: the new element is attached, callback( element ), before the
\* layout effects of the owner, which is its ancestor.
AttachRef ==
    /\ pc = "layout"
    /\ target # Null /\ dom # target
    /\ MergedRef(target)
    /\ dom' = target
    /\ pc' = AfterAttach
    /\ UNCHANGED << previousRefs, currentRefs, refs, deps, mounted, target,
                    kind, before, pureVars >>

\* Layout phase when no element is attached.
NothingToAttach ==
    /\ pc = "layout"
    /\ ~(target # Null /\ dom # target)
    /\ pc' = AfterAttach
    /\ UNCHANGED << element, didElementChange, previousRefs, currentRefs, refs,
                    deps, mounted, dom, target, kind, before, log, last,
                    pureVars >>

\* A first layout effect that reassigns every ref on every render.
ReassignEffectEveryRender ==
    /\ pc = "effect1"
    /\ log' = log \o assignEach(refs, element)
    /\ last' = Record(last, assignEach(refs, element))
    /\ previousRefs' = refs
    /\ deps' = refs
    /\ mounted' = TRUE
    /\ pc' = "effect2"
    /\ UNCHANGED << element, didElementChange, currentRefs, refs, dom, target,
                    kind, before, pureVars >>

\* The first layout effect, useLayoutEffect( ..., refs ), when it runs.
ReassignEffect ==
    /\ pc = "effect1"
    /\ DepsChanged
    /\ log' = log \o ReassignCalls(didElementChange, previousRefs, refs, element)
    /\ last' = Record(last, ReassignCalls(didElementChange, previousRefs, refs, element))
    /\ previousRefs' = refs
    /\ deps' = refs
    /\ mounted' = TRUE
    /\ pc' = "effect2"
    /\ UNCHANGED << element, didElementChange, currentRefs, refs, dom, target,
                    kind, before, pureVars >>

\* The first layout effect when no dependency changed: the host framework
\* does not run it.
ReassignEffectSkipped ==
    /\ pc = "effect1"
    /\ ~DepsChanged
    /\ deps' = refs
    /\ pc' = "effect2"
    /\ UNCHANGED << element, didElementChange, previousRefs, currentRefs, refs,
                    mounted, dom, target, kind, before, log, last, pureVars >>

\* The second layout effect, without dependencies: runs after every render
\* of the owner.
ResetEffect ==
    /\ pc = "effect2"
    /\ didElementChange' = FALSE
    /\ pc' = "idle"
    /\ UNCHANGED << element, previousRefs, currentRefs, refs, deps, mounted,
                    dom, target, kind, before, log, last, pureVars >>

\* The pure functions' variables while the hook is under study.
PureIdle == arg = Undefined /\ res = Undefined /\ res2 = Undefined /\ stage = 0

\* The state before the owner's first render: useRef() is undefined,
\* useRef( false ), useRef( [] ), and nothing is attached.
HookInit ==
    /\ element = Undefined
    /\ didElementChange = FALSE
    /\ previousRefs = << >>
    /\ currentRefs = << >>
    /\ refs = << >>
    /\ deps = << >>
    /\ mounted = FALSE
    /\ dom = Null
    /\ target = Null
    /\ pc = "idle"
    /\ kind = "owner"
    /\ before = Snapshot
    /\ log = << >>
    /\ last = [r \in Refs |-> Unassigned]

Init == HookInit /\ PureIdle

Next ==
    \/ \E newRefs \in RefLists, newTarget \in Elements \cup {Null} :
           OwnerRender(newRefs, newTarget)
    \/ \E newTarget \in Elements \cup {Null} : ChildRender(newTarget)
    \/ DetachRef
    \/ KeepAttached
    \/ AttachRef
    \/ NothingToAttach
    \/ ReassignEffect
    \/ ReassignEffectSkipped
    \/ ResetEffect

Spec == Init /\ [][Next]_vars

\* ---------------------------------------------------- useMergeRefs: claims

\* How often the assignment of `value` to `ref` occurs in the commit's log.
Count(ref, value) ==
    Cardinality({i \in DOMAIN log : log[i] = [ref |-> ref, value |-> value]})

\* The positions at which the list of this render differs from the list of
\* the render before.
ChangedPositions == {i \in DOMAIN refs : PreviousAt(before.refs, i) # refs[i]}

\* An owner's re-render has been committed in full.
OwnerCommitDone == pc = "idle" /\ kind = "owner" /\ before.mounted

\* The merged callback has just finished its part of a commit: the owner's
\* effects have not run yet (or do not run at all, in a child's commit).
AfterMergedRef ==
    \/ pc = "effect1"
    \/ pc = "idle" /\ kind = "child" /\ mounted

\* What the element-change path assigns: null to the list of the render
\* before when an element went away, the new element to the current list.
DetachPart ==
    IF before.dom # Null
    THEN [i \in DOMAIN before.refs |-> [ref |-> before.refs[i], value |-> Null]]
    ELSE << >>

AttachPart ==
    IF dom # Null
    THEN [i \in DOMAIN currentRefs |-> [ref |-> currentRefs[i], value |-> dom]]
    ELSE << >>

\* C1 (as claimed): after an owner's commit in which the list changed and the
\* attached element did not, the commit's assignments are exactly, for each
\* changed position, the previous ref with null followed by the new ref with
\* the attached element; no other ref is assigned.
C1_OnlyChangedRefsReassigned ==
    (OwnerCommitDone /\ dom \in Elements /\ before.dom = dom /\ before.refs # refs)
    => /\ \A i \in ChangedPositions :
              \E j, k \in DOMAIN log :
                  /\ j < k
                  /\ log[j] = [ref |-> before.refs[i], value |-> Null]
                  /\ log[k] = [ref |-> refs[i], value |-> dom]
       /\ \A j \in DOMAIN log :
              \E i \in ChangedPositions : log[j].ref \in {before.refs[i], refs[i]}
       /\ Len(log) = 2 * Cardinality(ChangedPositions)

\* C2 (as claimed): when the merged callback ran because the element changed,
\* every ref of the current list was assigned the new element, or null when
\* the element was unmounted.
C2_CurrentRefsGetNewValue ==
    (AfterMergedRef /\ before.dom # dom)
    => \A i \in DOMAIN currentRefs : Count(currentRefs[i], dom) >= 1

\* C2 (amended): when the merged callback ran because the element changed,
\* the refs of the current list were assigned the new element if there is
\* one, and the refs of the list of the render before (previousRefs.current)
\* were assigned null if an element went away; nothing else was assigned.
\* On an unmount the current refs receive null only where the list did not
\* change in the same render.
C2_ElementChangeAssignsLists ==
    (AfterMergedRef /\ before.dom # dom)
    => /\ log = DetachPart \o AttachPart
       /\ currentRefs = refs
       /\ before.dom # Null => before.previousRefs = before.refs
       /\ (dom = Null /\ before.refs = refs)
              => \A i \in DOMAIN currentRefs : Count(currentRefs[i], Null) = 1

\* C2 witness: an unmount committed together with a change of the list.
C2_Witness ==
    /\ AfterMergedRef /\ kind = "owner"
    /\ before.dom \in Elements /\ dom = Null
    /\ before.refs # refs
    /\ log # << >>

\* C3: after an owner's commit in which the element and the list both
\* changed, only the element-change path has assigned refs (the effect's
\* reassignment added nothing), no ref was assigned null twice or the
\* element twice, and didElementChange is false again.
C3_OnlyElementPathFires ==
    (pc = "idle" /\ kind = "owner" /\ mounted
        /\ before.dom # dom /\ before.refs # refs)
    => /\ Len(log) = Len(DetachPart) + Len(AttachPart)
       /\ \A r \in Refs : \A v \in Elements \cup {Null} : Count(r, v) <= 1
       /\ didElementChange = FALSE

\* C3 witness: an element swap committed together with a change of the list.
C3_Witness ==
    /\ OwnerCommitDone
    /\ before.dom \in Elements /\ dom \in Elements /\ before.dom # dom
    /\ before.refs # refs
    /\ Len(log) = 2 * ListLen

\* C4: a ref is assigned during a commit only if that commit changes the
\* element or the identity of a ref in the list; a re-render that changes
\* neither assigns no ref.
C4_NoRedundantCalls ==
    log # << >> => (target # before.dom \/ before.refs # refs)

\* C4 witness: a committed re-render with the same list and the same
\* attached element.
C4_Witness ==
    /\ OwnerCommitDone
    /\ dom \in Elements /\ before.dom = dom
    /\ before.refs = refs
    /\ log = << >>

\* C8 (as claimed), for an attached element: after every completed commit,
\* each ref of the current list was last given the attached element.
C8_CurrentRefsHoldElement ==
    (pc = "idle" /\ mounted /\ dom \in Elements)
    => \A r \in Range(refs) : last[r] = dom

\* C9 (as claimed): when the reassignment effect runs in a commit that
\* changes the list but not the element, didElementChange is false.
C9_FlagClearBeforeReassign ==
    (pc = "effect1" /\ before.mounted /\ before.dom = dom /\ before.refs # refs)
    => didElementChange = FALSE

\* C10 (as claimed): every assignment to a ref passes an element or null.
C10_NeverUndefined ==
    \A i \in DOMAIN log : log[i].value \in Elements \cup {Null}

\* ---------------------------------------------------------------- strings

\* A string is a sequence of fragments: a fragment is a character or a
\* piece of text that nothing in the model takes apart.  JavaScript's
\* undefined, where a string may stand, is a value that is no string.
Space == " "
UndefinedString == << "<undefined>" >>

\* value ? ... : ... and ! value for a string or undefined.
Truthy(str) == str # UndefinedString /\ str # << >>

RECURSIVE SplitFrom(_, _, _)
\* Reads `str` with the token `word` under construction and the tokens
\* `done` already complete: a run of white space ends a token.
SplitFrom(str, word, done) ==
    IF str = << >> THEN (IF word = << >> THEN done ELSE Append(done, word))
    ELSE IF Head(str) = Space
         THEN SplitFrom(Tail(str), << >>,
                        IF word = << >> THEN done ELSE Append(done, word))
         ELSE SplitFrom(Tail(str), Append(word, Head(str)), done)

\* compact( str.split( /\s+/ ) ): the non-empty tokens of `str`, in order.
SplitWhitespace(str) == SplitFrom(str, << >>, << >>)

RECURSIVE uniq(_)
\* uniq( tokens ): the first occurrence of each token, in order.
uniq(tokens) ==
    IF tokens = << >> THEN << >>
    ELSE LET rest == uniq(Tail(tokens))
         IN  << Head(tokens) >>
             \o SelectSeq(rest, LAMBDA t : t # Head(tokens))

RECURSIVE join(_, _)
\* tokens.join( separator )
join(tokens, separator) ==
    IF tokens = << >> THEN << >>
    ELSE IF Len(tokens) = 1 THEN Head(tokens)
    ELSE Head(tokens) \o separator \o join(Tail(tokens), separator)

\* ---------------------------------------------------------------- TokenList

\* TokenList's value setter: the list keeps the distinct tokens of the
\* string, and its value is those tokens joined by one space.
TokenListSet(str) == uniq(SplitWhitespace(str))

TokenListValue(tokens) == join(tokens, << Space >>)

\* new TokenList( initialValue = '' )
TokenListNew(initialValue) ==
    TokenListSet(IF initialValue = UndefinedString THEN << >> ELSE initialValue)

\* add( item ): this.value += ' ' + item
TokenListAdd(tokens, item) ==
    TokenListSet(TokenListValue(tokens) \o << Space >> \o item)

\* ------------------------------------------------------------ block supports

FONT_FAMILY_SUPPORT_KEY == "__experimentalFontFamily"
SKIP_SERIALIZATION_KEY == "__experimentalSkipTypographySerialization"

\* The registered block types: every combination of the two support flags.
BlockTypes ==
    { [name |-> "core/plain", supports |-> {}],
      [name |-> "core/font", supports |-> {FONT_FAMILY_SUPPORT_KEY}],
      [name |-> "core/skip",
       supports |-> {FONT_FAMILY_SUPPORT_KEY, SKIP_SERIALIZATION_KEY}],
      [name |-> "core/skip-only", supports |-> {SKIP_SERIALIZATION_KEY}] }

\* The block type registered under `name`.
getBlockType(name) == CHOOSE t \in BlockTypes : t.name = name

\* hasBlockSupport( blockType, feature )
hasBlockSupport(blockType, feature) == feature \in blockType.supports

\* ------------------------------------------------------------- addSaveProps

\* An object that is undefined.
NoObject == [undefined |-> TRUE]

\* attributes?.fontFamily
AttributeFontFamily(attributes) ==
    IF attributes = NoObject THEN UndefinedString ELSE attributes.fontFamily

\* `has-${ attributes?.fontFamily }-font-family`
FontFamilyClass(attributes) ==
    << "has-" >> \o AttributeFontFamily(attributes) \o << "-font-family" >>

\* props after classes.add( ... ): props.className = newClassName ?
\* newClassName : undefined
WithFontFamilyClass(props, attributes) ==
    LET classes == TokenListAdd(TokenListNew(props.className),
                                FontFamilyClass(attributes))
        newClassName == TokenListValue(classes)
    IN  [props EXCEPT !.className =
            IF Truthy(newClassName) THEN newClassName ELSE UndefinedString]

\* addSaveProps without its test of the skip-serialization flag.
addSavePropsIgnoringSkip(props, blockType, attributes) ==
    IF ~hasBlockSupport(blockType, FONT_FAMILY_SUPPORT_KEY) THEN props
    ELSE IF ~Truthy(AttributeFontFamily(attributes)) THEN props
    ELSE WithFontFamilyClass(props, attributes)

\* addSaveProps( props, blockType, attributes )
addSaveProps(props, blockType, attributes) ==
    IF ~hasBlockSupport(blockType, FONT_FAMILY_SUPPORT_KEY) THEN props
    ELSE IF hasBlockSupport(blockType, SKIP_SERIALIZATION_KEY) THEN props
    ELSE IF ~Truthy(AttributeFontFamily(attributes)) THEN props
    ELSE WithFontFamilyClass(props, attributes)

\* Number of pieces a className of the inputs is made of.
MaxPieces == 4

\* The font family slugs of the inputs.
Slugs == { << "a" >>, << "b" >> }

\* The pieces: white space, a class, and the font family class of each slug.
Pieces ==
    { << Space >>, << "x" >> }
        \cup { << "has-" >> \o slug \o << "-font-family" >> : slug \in Slugs }

RECURSIVE Flatten(_)
Flatten(pieces) ==
    IF pieces = << >> THEN << >> ELSE Head(pieces) \o Flatten(Tail(pieces))

ClassNames ==
    { UndefinedString }
        \cup UNION { { Flatten(p) : p \in [1..n -> Pieces] } : n \in 0..MaxPieces }

SaveInputs ==
    [ props : [className : ClassNames],
      blockType : BlockTypes,
      attributes : { NoObject }
                     \cup [fontFamily : Slugs \cup { << >>, UndefinedString }] ]

\* The save-props filter is applied to the props of a block being saved.
ApplySaveProps ==
    /\ stage = 0
    /\ res' = addSaveProps(arg.props, arg.blockType, arg.attributes)
    /\ stage' = 1
    /\ UNCHANGED << arg, res2, hookVars >>

\* The filter is applied to the props it returned.
ApplySavePropsAgain ==
    /\ stage = 1
    /\ res2' = addSaveProps(res, arg.blockType, arg.attributes)
    /\ stage' = 2
    /\ UNCHANGED << arg, res, hookVars >>

InitSave ==
    /\ HookInit
    /\ arg \in SaveInputs
    /\ res = Undefined /\ res2 = Undefined /\ stage = 0

NextSave == ApplySaveProps \/ ApplySavePropsAgain

SpecSave == InitSave /\ [][NextSave]_vars

\* The class tokens of a className.
ClassTokens(className) ==
    IF className = UndefinedString THEN << >> ELSE SplitWhitespace(className)

\* The case in which the filter has something to add.
SaveActive ==
    /\ FONT_FAMILY_SUPPORT_KEY \in arg.blockType.supports
    /\ SKIP_SERIALIZATION_KEY \notin arg.blockType.supports
    /\ arg.attributes # NoObject
    /\ arg.attributes.fontFamily \notin { << >>, UndefinedString }

\* C5: with the capability declared, the skip flag not declared and a
\* non-empty fontFamily, the returned className holds the token
\* has-<slug>-font-family exactly once and every token the className held,
\* and applying the filter again changes nothing; otherwise the props are
\* returned unchanged.
C5_SaveClassInjected ==
    /\ (stage >= 1 /\ SaveActive)
       => LET wanted == << "has-" >> \o arg.attributes.fontFamily \o << "-font-family" >>
              tokens == ClassTokens(res.className)
          IN  /\ Cardinality({i \in DOMAIN tokens : tokens[i] = wanted}) = 1
              /\ \A t \in Range(ClassTokens(arg.props.className)) : t \in Range(tokens)
    /\ (stage = 2 /\ SaveActive) => res2 = res
    /\ (stage >= 1 /\ ~SaveActive) => res = arg.props
    /\ (stage = 2 /\ ~SaveActive) => res2 = arg.props

\* C5 witness: the filter was applied twice to a className that already
\* held the font family class, and rewrote it.
C5_Witness ==
    /\ stage = 2 /\ SaveActive
    /\ << "has-" >> \o arg.attributes.fontFamily \o << "-font-family" >>
           \in Range(ClassTokens(arg.props.className))
    /\ res.className # arg.props.className

\* ----------------------------------------------- withFontFamilyInlineStyles

\* A key an object does not have.
Absent == "<absent>"

\* The keys of a wrapper style.  An object is a record over the keys it may
\* have, Absent under those it has not.
StyleKeys == { "fontFamily", "color" }

\* A list that is undefined: a value that is no list of font families.
UndefinedList == << NoObject >>

\* find( fontFamilies, ( { slug } ) => slug === fontFamily ): the first
\* entry with that slug, undefined when there is none or no list.
find(fontFamilies, fontFamily) ==
    IF fontFamilies = UndefinedList THEN NoObject
    ELSE LET hits == {i \in DOMAIN fontFamilies : fontFamilies[i].slug = fontFamily}
         IN  IF hits = {} THEN NoObject
             ELSE fontFamilies[CHOOSE i \in hits : \A j \in hits : i <= j]

\* find( ... )?.fontFamily
FontFamilyValue(fontFamilies, fontFamily) ==
    IF find(fontFamilies, fontFamily) = NoObject THEN Undefined
    ELSE find(fontFamilies, fontFamily).fontFamily

\* style?.typography?.fontFamily
InlineFontFamily(style) ==
    IF style = NoObject THEN Undefined
    ELSE IF style.typography = NoObject THEN Undefined
    ELSE style.typography.fontFamily

\* value ? ... : ... for a string value or undefined.
TruthyValue(value) == value \notin { Undefined, "" }

\* wrapperProps?.style
WrapperStyle(wrapperProps) ==
    IF wrapperProps = NoObject THEN NoObject ELSE wrapperProps.style

\* { ...wrapperProps?.style, fontFamily: fontFamilyValue }: the looked-up
\* family written over the existing style.
MergedStyleFamilyLast(fontFamilyValue, style) ==
    [k \in StyleKeys |->
        IF k = "fontFamily" THEN fontFamilyValue
        ELSE IF style = NoObject THEN Absent ELSE style[k]]

\* { fontFamily: fontFamilyValue, ...wrapperProps?.style }: the keys of the
\* existing style are written over the looked-up family.
MergedStyle(fontFamilyValue, style) ==
    [k \in StyleKeys |->
        IF style # NoObject /\ style[k] # Absent THEN style[k]
        ELSE IF k = "fontFamily" THEN fontFamilyValue
        ELSE Absent]

\* { ...wrapperProps, style: ... }
MergedWrapperProps(wrapperProps, style) ==
    [ className |-> IF wrapperProps = NoObject THEN Absent ELSE wrapperProps.className,
      style |-> style ]

\* The props the wrapped BlockListBlock receives.
withFontFamilyInlineStyles(props, fontFamilies) ==
    IF \/ ~hasBlockSupport(getBlockType(props.name), FONT_FAMILY_SUPPORT_KEY)
       \/ hasBlockSupport(getBlockType(props.name), SKIP_SERIALIZATION_KEY)
       \/ ~TruthyValue(props.attributes.fontFamily)
       \/ TruthyValue(InlineFontFamily(props.attributes.style))
    THEN props
    ELSE [props EXCEPT !.wrapperProps =
            MergedWrapperProps(props.wrapperProps,
                MergedStyle(FontFamilyValue(fontFamilies, props.attributes.fontFamily),
                            WrapperStyle(props.wrapperProps)))]

\* Length of the font family list of the settings.
MaxFamilies == 2

FamilySlugs == { "s1", "s2" }
FamilyValues == { "F1", "F2" }

FontFamilySettings ==
    { UndefinedList }
        \cup UNION { [1..n -> [slug : FamilySlugs, fontFamily : FamilyValues]]
                     : n \in 0..MaxFamilies }

StyleAttributes ==
    { NoObject, [typography |-> NoObject] }
        \cup { [typography |-> [fontFamily |-> v]] : v \in { Undefined, "serif" } }

WrapperStyles ==
    { NoObject }
        \cup [StyleKeys -> { Absent, "W" }]

WrapperPropsInputs ==
    { NoObject } \cup [className : { Absent, "wide" }, style : WrapperStyles]

InlineInputs ==
    [ props : [ name : { t.name : t \in BlockTypes },
                attributes : [ fontFamily : { Undefined, "", "s1", "s3" },
                               style : StyleAttributes ],
                wrapperProps : WrapperPropsInputs ],
      fontFamilies : FontFamilySettings ]

\* A block is rendered in the editor through the wrapper.
RenderBlockListBlock ==
    /\ stage = 0
    /\ res' = withFontFamilyInlineStyles(arg.props, arg.fontFamilies)
    /\ stage' = 1
    /\ UNCHANGED << arg, res2, hookVars >>

InitInline ==
    /\ HookInit
    /\ arg \in InlineInputs
    /\ res = Undefined /\ res2 = Undefined /\ stage = 0

NextInline == RenderBlockListBlock

SpecInline == InitInline /\ [][NextInline]_vars

\* The case in which the wrapper has a style to add.
InlineActive ==
    /\ FONT_FAMILY_SUPPORT_KEY \in getBlockType(arg.props.name).supports
    /\ SKIP_SERIALIZATION_KEY \notin getBlockType(arg.props.name).supports
    /\ arg.props.attributes.fontFamily \notin { Undefined, "" }
    /\ \/ arg.props.attributes.style = NoObject
       \/ arg.props.attributes.style.typography = NoObject
       \/ arg.props.attributes.style.typography.fontFamily \notin { "serif" }

\* The family the settings list gives for the block's slug.
LookedUpFamily ==
    LET l == arg.fontFamilies
        slug == arg.props.attributes.fontFamily
    IN  IF l = UndefinedList \/ \A i \in DOMAIN l : l[i].slug # slug THEN Undefined
        ELSE l[CHOOSE i \in DOMAIN l :
                   l[i].slug = slug /\ \A j \in 1..(i - 1) : l[j].slug # slug].fontFamily

\* The wrapper style of the input has the key `k`.
HadStyleKey(k) ==
    /\ arg.props.wrapperProps # NoObject
    /\ arg.props.wrapperProps.style # NoObject
    /\ arg.props.wrapperProps.style[k] # Absent

\* The wrapper's other effects, common to the claim and its amendment: the
\* other keys of the wrapper style and the other wrapper props are kept, and
\* outside the active case the props are passed on unchanged.
InlineFrame ==
    /\ (stage = 1 /\ InlineActive)
       => /\ \A k \in StyleKeys \ { "fontFamily" } :
                 res.wrapperProps.style[k] =
                     IF HadStyleKey(k) THEN arg.props.wrapperProps.style[k] ELSE Absent
          /\ res.wrapperProps.className =
                 IF arg.props.wrapperProps = NoObject THEN Absent
                 ELSE arg.props.wrapperProps.className
          /\ res.name = arg.props.name
          /\ res.attributes = arg.props.attributes
    /\ (stage = 1 /\ ~InlineActive) => res = arg.props

\* C6 (as claimed): in the active case the wrapper style's fontFamily is the
\* family looked up by the slug and every other key is kept; otherwise the
\* props are unchanged.
C6_StyleHasLookedUpFamily ==
    /\ InlineFrame
    /\ (stage = 1 /\ InlineActive)
       => res.wrapperProps.style["fontFamily"] = LookedUpFamily

\* C6 (amended): in the active case the wrapper style's fontFamily is the
\* one the existing wrapper style already has, if it has that key, and the
\* family looked up by the slug otherwise; every other key is kept; in every
\* other case the props are unchanged.
C6_ExistingWrapperFamilyWins ==
    /\ InlineFrame
    /\ (stage = 1 /\ InlineActive)
       => res.wrapperProps.style["fontFamily"] =
              IF HadStyleKey("fontFamily")
              THEN arg.props.wrapperProps.style["fontFamily"]
              ELSE LookedUpFamily

\* C6 witness: a family was looked up and merged into a wrapper style that
\* had another key.
C6_Witness ==
    /\ stage = 1 /\ InlineActive
    /\ LookedUpFamily \in FamilyValues
    /\ HadStyleKey("color") /\ ~HadStyleKey("fontFamily")
    /\ res.wrapperProps.style["fontFamily"] = LookedUpFamily
    /\ res # arg.props

\* ------------------------------------------------------------ parseAudioUrl

\* The part of `str` before the first `mark`, all of it when there is none.
Before(str, mark) ==
    IF \A i \in DOMAIN str : str[i] # mark THEN str
    ELSE SubSeq(str, 1, (CHOOSE i \in DOMAIN str :
                            str[i] = mark /\ \A j \in 1..(i - 1) : str[j] # mark) - 1)

\* The index of the last `mark` in `str`, 0 when there is none.
LastIndexOf(str, mark) ==
    IF \A i \in DOMAIN str : str[i] # mark THEN 0
    ELSE CHOOSE i \in DOMAIN str :
             str[i] = mark /\ \A j \in (i + 1)..Len(str) : str[j] # mark

\* The URL without its fragment and its query string.
StripQueryAndFragment(url) == Before(Before(url, "#"), "?")

\* The final path segment of the URL.
FinalSegment(url) ==
    LET path == StripQueryAndFragment(url)
    IN  SubSeq(path, LastIndexOf(path, "/") + 1, Len(path))

\* parseAudioUrl that splits the segment on its first '.'.
parseAudioUrlFirstDot(url) ==
    LET segment == FinalSegment(url)
    IN  IF LastIndexOf(segment, ".") = 0
        THEN [title |-> segment, extension |-> << >>]
        ELSE [title |-> Before(segment, "."),
              extension |-> SubSeq(segment, Len(Before(segment, ".")) + 2, Len(segment))]

\* parseAudioUrl( url ): the final path segment, without query string and
\* fragment, split on its last '.'; without a '.', the extension is empty
\* and the segment is the title.
parseAudioUrl(url) ==
    LET segment == FinalSegment(url)
        dot == LastIndexOf(segment, ".")
    IN  IF dot = 0
        THEN [title |-> segment, extension |-> << >>]
        ELSE [title |-> SubSeq(segment, 1, dot - 1),
              extension |-> SubSeq(segment, dot + 1, Len(segment))]

\* The URLs of the tests.
supportedAudioUrlsWithExtensions ==
    { << "https:", "/", "/", "www", ".", "mp3", ".", "com", "/", "file", ".", "mp3",
         "?", "key1=value1&key2=value2", "#", "anchorforsomereason" >>,
      << "https:", "/", "/", "www", ".", "mp3", ".", "com", "/", "file", ".", "mp3",
         "?", "key1=value1&key2=value2" >>,
      << "https:", "/", "/", "www", ".", "mp3", ".", "com", "/", "file", ".", "mp3" >> }

supportedAudioUrlsWithoutExtensions ==
    { << "https:", "/", "/", "www", ".", "mp3", ".", "com", "/", "file",
         "?", "key1=value1&key2=value2", "#", "anchorforsomereason" >>,
      << "https:", "/", "/", "www", ".", "mp3", ".", "com", "/", "file",
         "?", "key1=value1&key2=value2" >>,
      << "https:", "/", "/", "www", ".", "mp3", ".", "com", "/", "file" >>,
      << "https:", "/", "/", "www", ".", "mp3", ".", "com", "/", "folder", "/", "file" >> }

\* Length of the URLs of the inputs, beside those of the tests.
MaxUrlLen == 4

UrlChars == { "/", "?", "#", ".", "a" }

Urls ==
    supportedAudioUrlsWithExtensions \cup supportedAudioUrlsWithoutExtensions
        \cup UNION { [1..n -> UrlChars] : n \in 0..MaxUrlLen }

\* A URL is parsed.
ParseUrl ==
    /\ stage = 0
    /\ res' = parseAudioUrl(arg)
    /\ stage' = 1
    /\ UNCHANGED << arg, res2, hookVars >>

InitUrl ==
    /\ HookInit
    /\ arg \in Urls
    /\ res = Undefined /\ res2 = Undefined /\ stage = 0

NextUrl == ParseUrl

SpecUrl == InitUrl /\ [][NextUrl]_vars

\* What the tests expect of their URLs.
TestsPass ==
    stage = 1 =>
        /\ arg \in supportedAudioUrlsWithExtensions
               => res.title # << >> /\ res.extension # << >>
        /\ arg \in supportedAudioUrlsWithoutExtensions
               => res.title # << >> /\ res.extension = << >>

\* The final path segment of the parsed URL, read off the URL: what lies
\* between the last '/' and the first '?' or '#' that precedes no '/'.
ArgSegment ==
    LET ends == {i \in DOMAIN arg : arg[i] \in {"?", "#"}}
        stop == IF ends = {} THEN Len(arg) + 1
                ELSE CHOOSE i \in ends : \A j \in ends : i <= j
        slashes == {i \in 1..(stop - 1) : arg[i] = "/"}
        start == IF slashes = {} THEN 0
                 ELSE CHOOSE i \in slashes : \A j \in slashes : j <= i
    IN  SubSeq(arg, start + 1, stop - 1)

\* C7 (as claimed): a URL whose final path segment contains a '.' parses to
\* a non-empty extension and a non-empty title.
C7_DotGivesTitleAndExtension ==
    (stage = 1 /\ "." \in Range(ArgSegment))
    => res.extension # << >> /\ res.title # << >>

\* C7 (amended): a URL whose final path segment contains a '.' parses to the
\* title and the extension on either side of the segment's last '.'; the
\* extension is non-empty unless the segment ends with that '.', and the
\* title is non-empty unless the segment begins with it.
C7_SplitOnLastDot ==
    (stage = 1 /\ "." \in Range(ArgSegment))
    => /\ res.title \o << "." >> \o res.extension = ArgSegment
       /\ "." \notin Range(res.extension)
       /\ res.extension # << >> <=> ArgSegment[Len(ArgSegment)] # "."
       /\ res.title # << >> <=> (ArgSegment[1] # "." \/ "." \in Range(Tail(ArgSegment)))

\* C7 witness: a URL with a path, a query string and a '.' in its final
\* segment was parsed to a title and an extension.
C7_Witness ==
    /\ stage = 1
    /\ "?" \in Range(arg) /\ "/" \in Range(arg)
    /\ Cardinality({i \in DOMAIN ArgSegment : ArgSegment[i] = "."}) >= 1
    /\ res.title # << >> /\ res.extension # << >>

=============================================================================
